---- MODULE Spec2Model ----
(***************************************************************************)
(* Model of the task store of vue-task-tracker                             *)
(* (src/src/stores/taskStore.ts): the in-memory task list, the snapshot    *)
(* kept in LocalStorage under STORAGE_KEY, and the store's operations.     *)
(*                                                                         *)
(* A string is a sequence of one-character strings.  A task id is the      *)
(* pair <<t, r>> standing for the string `task-${t}-${r}`.  A stored       *)
(* snapshot is a JSON value: what LocalStorage.set serialises and what     *)
(* LocalStorage.getItem parses back.                                       *)
(***************************************************************************)
EXTENDS Integers, Sequences, FiniteSets, TLC

\* ---- bounds of the model ----
MaxTasks == 2          \* addTask succeeds only while the list is shorter
MaxWriteFailures == 1  \* LocalStorage.set throws at most this often in a row

\* ---- inputs ----
\* texts handed to addTask and updateTask: empty, whitespace only, leading
\* whitespace, inner and trailing whitespace
Texts ==
  { <<>>,
    <<" ", " ">>,
    <<" ", "a">>,
    <<"a", " ", "a", " ">> }
\* values of Date.now()
Timestamps == {1}
\* values of Math.random().toString(36).substring(2, 9)
Rand == {1, 2}

STORAGE_KEY == "taskflow-tasks"

\* ---- String.prototype.trim ----
IsSpace(c) == c = " "

RECURSIVE TrimStart(_)
TrimStart(s) ==
  IF s = <<>> THEN <<>>
  ELSE IF IsSpace(Head(s)) THEN TrimStart(Tail(s)) ELSE s

RECURSIVE TrimEnd(_)
TrimEnd(s) ==
  IF s = <<>> THEN <<>>
  ELSE IF IsSpace(s[Len(s)]) THEN TrimEnd(SubSeq(s, 1, Len(s) - 1)) ELSE s

Trim(s) == TrimEnd(TrimStart(s))

\* ---- generateId: `task-${Date.now()}-${Math.random()...}` ----
generateId(t, r) == <<t, r>>

\* an id no generated or persisted task carries
NoSuchId == <<0, 0>>

\* ---- Task (src/src/types/task.ts) ----
Task(id, text, completed, createdAt) ==
  [id |-> id, text |-> text, completed |-> completed, createdAt |-> createdAt]

\* ---- JSON values held by LocalStorage ----
\* An array element: its typeof, whether it is null, and for each of the
\* four properties its typeof and its value (a placeholder when the typeof
\* is not the one a Task has).
JsonElem(ty, isNull, idT, id, textT, text, compT, comp, atT, at) ==
  [typeof |-> ty, isNull |-> isNull,
   idType |-> idT, id |-> id,
   textType |-> textT, text |-> text,
   completedType |-> compT, completed |-> comp,
   createdAtType |-> atT, createdAt |-> at]

\* JSON.stringify followed by JSON.parse of one task object
TaskToJson(task) ==
  JsonElem("object", FALSE, "string", task.id, "string", task.text,
           "boolean", task.completed, "number", task.createdAt)

\* the in-memory object a parsed element is, once it has passed validation
JsonToTask(e) == Task(e.id, e.text, e.completed, e.createdAt)

\* What is kept under STORAGE_KEY: nothing, a JSON value (as getItem parses
\* it), or content getItem cannot read, so that it throws.
NoSnapshot ==
  [present |-> FALSE, readable |-> TRUE, isArray |-> FALSE, items |-> <<>>]
JsonArray(items) ==
  [present |-> TRUE, readable |-> TRUE, isArray |-> TRUE, items |-> items]
JsonOther ==
  [present |-> TRUE, readable |-> TRUE, isArray |-> FALSE, items |-> <<>>]
Unreadable ==
  [present |-> TRUE, readable |-> FALSE, isArray |-> FALSE, items |-> <<>>]

\* LocalStorage.set(STORAGE_KEY, tasks.value): the value getItem would return
Serialize(ts) == JsonArray([i \in 1..Len(ts) |-> TaskToJson(ts[i])])

\* the item check without the test of `completed`
IsValidTaskItem_NoCompletedCheck(item) ==
  /\ item.typeof = "object"
  /\ ~item.isNull
  /\ item.idType = "string"
  /\ item.textType = "string"
  /\ item.createdAtType = "number"

\* the item check testing `item.completed` for truth instead of its type
IsValidTaskItem_TruthyCompleted(item) ==
  /\ item.typeof = "object"
  /\ ~item.isNull
  /\ item.idType = "string"
  /\ item.textType = "string"
  /\ item.completedType = "boolean" /\ item.completed
  /\ item.createdAtType = "number"

\* ---- isValidTaskArray ----
IsValidTaskItem(item) ==
  /\ item.typeof = "object"
  /\ ~item.isNull
  /\ item.idType = "string"
  /\ item.textType = "string"
  /\ item.completedType = "boolean"
  /\ item.createdAtType = "number"

isValidTaskArray(data) ==
  IF ~data.isArray THEN FALSE
  ELSE \A i \in 1..Len(data.items) : IsValidTaskItem(data.items[i])

\* loadTasksFromStorage without its try/catch
loadTasksFromStorage_NoCatch(stored) ==
  IF ~stored.readable THEN
    [tasks |-> <<>>, storage |-> stored, log |-> "none", removes |-> 0,
     threw |-> TRUE]
  ELSE IF ~stored.present THEN
    [tasks |-> <<>>, storage |-> stored, log |-> "none", removes |-> 0,
     threw |-> FALSE]
  ELSE IF ~isValidTaskArray(stored) THEN
    [tasks |-> <<>>, storage |-> NoSnapshot, log |-> "warn-invalid",
     removes |-> 1, threw |-> FALSE]
  ELSE
    [tasks |-> [i \in 1..Len(stored.items) |-> JsonToTask(stored.items[i])],
     storage |-> stored, log |-> "none", removes |-> 0, threw |-> FALSE]

\* ---- loadTasksFromStorage ----
\* Yields the list returned, the snapshot left under STORAGE_KEY, the
\* console message, the number of LocalStorage.remove calls and whether an
\* exception leaves the function.  The first branch is the catch block:
\* LocalStorage.getItem has thrown.
loadTasksFromStorage(stored) ==
  IF ~stored.readable THEN
    [tasks |-> <<>>, storage |-> stored, log |-> "error-loading",
     removes |-> 0, threw |-> FALSE]
  ELSE IF ~stored.present THEN
    [tasks |-> <<>>, storage |-> stored, log |-> "none", removes |-> 0,
     threw |-> FALSE]
  ELSE IF ~isValidTaskArray(stored) THEN
    [tasks |-> <<>>, storage |-> NoSnapshot, log |-> "warn-invalid",
     removes |-> 1, threw |-> FALSE]
  ELSE
    [tasks |-> [i \in 1..Len(stored.items) |-> JsonToTask(stored.items[i])],
     storage |-> stored, log |-> "none", removes |-> 0, threw |-> FALSE]

\* saveTasksToStorage with a catch block that only logs
saveTasksToStorage_NoNotify(ts, old, setThrows) ==
  IF setThrows THEN [storage |-> old, threw |-> TRUE, notify |-> 0]
  ELSE [storage |-> Serialize(ts), threw |-> FALSE, notify |-> 0]

\* ---- saveTasksToStorage ----
\* setThrows: LocalStorage.set throws (quota exceeded); the old snapshot
\* stays and Notify.create is called.
\* saveTasksToStorage whose failing write leaves the key emptied
saveTasksToStorage_ClearsOnFailure(ts, old, setThrows) ==
  IF setThrows THEN [storage |-> NoSnapshot, threw |-> TRUE, notify |-> 1]
  ELSE [storage |-> Serialize(ts), threw |-> FALSE, notify |-> 0]

saveTasksToStorage(ts, old, setThrows) ==
  IF setThrows THEN [storage |-> old, threw |-> TRUE, notify |-> 1]
  ELSE [storage |-> Serialize(ts), threw |-> FALSE, notify |-> 0]

\* stats whose pending count is taken from the whole list
\* ---- stats ----
RECURSIVE Filter(_, _)
Filter(ts, keepCompleted) ==
  IF ts = <<>> THEN <<>>
  ELSE IF Head(ts).completed = keepCompleted
       THEN <<Head(ts)>> \o Filter(Tail(ts), keepCompleted)
       ELSE Filter(Tail(ts), keepCompleted)

\* stats whose pending count is taken from the whole list
stats_PendingIsTotal(ts) ==
  [total |-> Len(ts),
   completed |-> Len(Filter(ts, TRUE)),
   pending |-> Len(ts)]

stats(ts) ==
  [total |-> Len(ts),
   completed |-> Len(Filter(ts, TRUE)),
   pending |-> Len(Filter(ts, FALSE))]

\* ---- getFilteredTasks ----
TaskFilters == {"all", "completed", "pending"}

\* getFilteredTasks with the two filtering cases exchanged
getFilteredTasks_Swapped(ts, filter) ==
  CASE filter = "completed" -> Filter(ts, FALSE)
    [] filter = "pending" -> Filter(ts, TRUE)
    [] OTHER -> ts

getFilteredTasks(ts, filter) ==
  CASE filter = "completed" -> Filter(ts, TRUE)
    [] filter = "pending" -> Filter(ts, FALSE)
    [] OTHER -> ts

\* Array.prototype.findIndex(t => t.id === id); 0 stands for -1 / undefined
findIndex(ts, id) ==
  IF \E i \in 1..Len(ts) : ts[i].id = id
  THEN CHOOSE i \in 1..Len(ts) :
         /\ ts[i].id = id
         /\ \A j \in 1..(i - 1) : ts[j].id # id
  ELSE 0

\* ---- what an operation hands back to its caller ----
NoTask == Task(NoSuchId, <<>>, FALSE, 0)
RetBool(b) ==
  [kind |-> "boolean", bool |-> b, task |-> NoTask, num |-> 0, list |-> <<>>]
RetTask(t) ==
  [kind |-> "task", bool |-> FALSE, task |-> t, num |-> 0, list |-> <<>>]
RetNum(n) ==
  [kind |-> "number", bool |-> FALSE, task |-> NoTask, num |-> n,
   list |-> <<>>]
RetList(l) ==
  [kind |-> "list", bool |-> FALSE, task |-> NoTask, num |-> 0, list |-> l]
RetVoid ==
  [kind |-> "void", bool |-> FALSE, task |-> NoTask, num |-> 0, list |-> <<>>]
\* `throw new Error(...)`: the call does not return
Thrown ==
  [kind |-> "throw", bool |-> FALSE, task |-> NoTask, num |-> 0,
   list |-> <<>>]

\* The outcome of one call: the list and the snapshot afterwards, what the
\* caller gets, the console message, the number of LocalStorage.set calls,
\* whether that call threw, the number of Notify.create calls and the number
\* of LocalStorage.remove calls.
Outcome(ts, st, ret, log, writes, setThrew, notify) ==
  [tasks |-> ts, storage |-> st, ret |-> ret, log |-> log,
   writes |-> writes, setThrew |-> setThrew, notify |-> notify,
   removes |-> 0]

\* addTask without the check of the trimmed text
addTask_NoValidation(ts, st, text, t1, r, t2, setThrows) ==
  LET newTask == Task(generateId(t1, r), Trim(text), FALSE, t2)
      nts == <<newTask>> \o ts
      sv == saveTasksToStorage(nts, st, setThrows)
  IN Outcome(nts, sv.storage, RetTask(newTask), "none", 1, sv.threw, sv.notify)

\* ---- addTask ----
\* t1, r: Date.now() and Math.random() inside generateId; t2: Date.now() of
\* createdAt.
addTask(ts, st, text, t1, r, t2, setThrows) ==
  LET trimmedText == Trim(text) IN
  IF trimmedText = <<>> THEN
    Outcome(ts, st, Thrown, "Task text cannot be empty", 0, FALSE, 0)
  ELSE
    LET newTask == Task(generateId(t1, r), trimmedText, FALSE, t2)
        nts == <<newTask>> \o ts
        sv == saveTasksToStorage(nts, st, setThrows)
    IN Outcome(nts, sv.storage, RetTask(newTask), "none", 1, sv.threw, sv.notify)

\* toggleTask that throws when no task has the id
toggleTask_ThrowsNotFound(ts, st, id, setThrows) ==
  LET i == findIndex(ts, id) IN
  IF i = 0 THEN
    Outcome(ts, st, Thrown, "warn-not-found", 0, FALSE, 0)
  ELSE
    LET nts == [ts EXCEPT ![i].completed = ~@]
        sv == saveTasksToStorage(nts, st, setThrows)
    IN Outcome(nts, sv.storage, RetBool(TRUE), "none", 1, sv.threw, sv.notify)

\* toggleTask that marks the task completed instead of flipping the flag
toggleTask_MarksCompleted(ts, st, id, setThrows) ==
  LET i == findIndex(ts, id) IN
  IF i = 0 THEN
    Outcome(ts, st, RetBool(FALSE), "warn-not-found", 0, FALSE, 0)
  ELSE
    LET nts == [ts EXCEPT ![i].completed = TRUE]
        sv == saveTasksToStorage(nts, st, setThrows)
    IN Outcome(nts, sv.storage, RetBool(TRUE), "none", 1, sv.threw, sv.notify)

\* ---- toggleTask ----
toggleTask(ts, st, id, setThrows) ==
  LET i == findIndex(ts, id) IN
  IF i = 0 THEN
    Outcome(ts, st, RetBool(FALSE), "warn-not-found", 0, FALSE, 0)
  ELSE
    LET nts == [ts EXCEPT ![i].completed = ~@]
        sv == saveTasksToStorage(nts, st, setThrows)
    IN Outcome(nts, sv.storage, RetBool(TRUE), "none", 1, sv.threw, sv.notify)

\* deleteTask without the index === -1 check: splice(-1, 1) drops the last
\* element
deleteTask_SpliceMinusOne(ts, st, id, setThrows) ==
  LET index == findIndex(ts, id)
      nts == IF index = 0
             THEN SubSeq(ts, 1, Len(ts) - 1)
             ELSE SubSeq(ts, 1, index - 1) \o SubSeq(ts, index + 1, Len(ts))
      sv == saveTasksToStorage(nts, st, setThrows)
  IN Outcome(nts, sv.storage, RetBool(TRUE), "none", 1, sv.threw, sv.notify)

\* deleteTask written as a filter on the id: drops every task with the id
RECURSIVE WithoutId(_, _)
WithoutId(ts, id) ==
  IF ts = <<>> THEN <<>>
  ELSE IF Head(ts).id = id THEN WithoutId(Tail(ts), id)
  ELSE <<Head(ts)>> \o WithoutId(Tail(ts), id)

deleteTask_FiltersById(ts, st, id, setThrows) ==
  LET index == findIndex(ts, id) IN
  IF index = 0 THEN
    Outcome(ts, st, RetBool(FALSE), "warn-not-found", 0, FALSE, 0)
  ELSE
    LET nts == WithoutId(ts, id)
        sv == saveTasksToStorage(nts, st, setThrows)
    IN Outcome(nts, sv.storage, RetBool(TRUE), "none", 1, sv.threw, sv.notify)

\* ---- deleteTask ----
deleteTask(ts, st, id, setThrows) ==
  LET index == findIndex(ts, id) IN
  IF index = 0 THEN
    Outcome(ts, st, RetBool(FALSE), "warn-not-found", 0, FALSE, 0)
  ELSE
    LET nts == SubSeq(ts, 1, index - 1) \o SubSeq(ts, index + 1, Len(ts))
        sv == saveTasksToStorage(nts, st, setThrows)
    IN Outcome(nts, sv.storage, RetBool(TRUE), "none", 1, sv.threw, sv.notify)

\* clearCompleted that saves before it replaces the list
clearCompleted_SavesFirst(ts, st, setThrows) ==
  LET completedCount == Len(Filter(ts, TRUE))
      sv == saveTasksToStorage(ts, st, setThrows)
      nts == Filter(ts, FALSE)
  IN Outcome(nts, sv.storage, RetNum(completedCount), "none", 1, sv.threw,
             sv.notify)

\* clearCompleted that counts the completed tasks after it has removed them
clearCompleted_CountsAfter(ts, st, setThrows) ==
  LET nts == Filter(ts, FALSE)
      completedCount == Len(Filter(nts, TRUE))
      sv == saveTasksToStorage(nts, st, setThrows)
  IN Outcome(nts, sv.storage, RetNum(completedCount), "none", 1, sv.threw,
             sv.notify)

\* clearCompleted that saves only when it removed a task
clearCompleted_SkipsSaveIfNone(ts, st, setThrows) ==
  LET completedCount == Len(Filter(ts, TRUE))
      nts == Filter(ts, FALSE)
      sv == saveTasksToStorage(nts, st, setThrows)
  IN IF completedCount = 0
     THEN Outcome(nts, st, RetNum(0), "none", 0, FALSE, 0)
     ELSE Outcome(nts, sv.storage, RetNum(completedCount), "none", 1,
                  sv.threw, sv.notify)

\* ---- clearCompleted ----
clearCompleted(ts, st, setThrows) ==
  LET completedCount == Len(Filter(ts, TRUE))
      nts == Filter(ts, FALSE)
      sv == saveTasksToStorage(nts, st, setThrows)
  IN Outcome(nts, sv.storage, RetNum(completedCount), "none", 1, sv.threw, sv.notify)

\* updateTask without the check of the trimmed text
updateTask_NoValidation(ts, st, id, text, setThrows) ==
  LET i == findIndex(ts, id) IN
  IF i = 0 THEN
    Outcome(ts, st, RetBool(FALSE), "warn-not-found", 0, FALSE, 0)
  ELSE
    LET nts == [ts EXCEPT ![i].text = Trim(text)]
        sv == saveTasksToStorage(nts, st, setThrows)
    IN Outcome(nts, sv.storage, RetBool(TRUE), "none", 1, sv.threw, sv.notify)

\* updateTask that stores the text as given, untrimmed
updateTask_StoresRawText(ts, st, id, text, setThrows) ==
  LET i == findIndex(ts, id) IN
  IF i = 0 THEN
    Outcome(ts, st, RetBool(FALSE), "warn-not-found", 0, FALSE, 0)
  ELSE
    LET trimmedText == Trim(text) IN
    IF trimmedText = <<>> THEN
      Outcome(ts, st, RetBool(FALSE), "warn-empty-text", 0, FALSE, 0)
    ELSE
      LET nts == [ts EXCEPT ![i].text = text]
          sv == saveTasksToStorage(nts, st, setThrows)
      IN Outcome(nts, sv.storage, RetBool(TRUE), "none", 1, sv.threw,
                 sv.notify)

\* ---- updateTask ----
updateTask(ts, st, id, text, setThrows) ==
  LET i == findIndex(ts, id) IN
  IF i = 0 THEN
    Outcome(ts, st, RetBool(FALSE), "warn-not-found", 0, FALSE, 0)
  ELSE
    LET trimmedText == Trim(text) IN
    IF trimmedText = <<>> THEN
      Outcome(ts, st, RetBool(FALSE), "warn-empty-text", 0, FALSE, 0)
    ELSE
      LET nts == [ts EXCEPT ![i].text = trimmedText]
          sv == saveTasksToStorage(nts, st, setThrows)
      IN Outcome(nts, sv.storage, RetBool(TRUE), "none", 1, sv.threw, sv.notify)

\* ---- persisted content found when the store is first constructed ----
PersistedA == Task(<<1, 1>>, <<"a">>, FALSE, 0)
\* same id as PersistedA, text of whitespace only
PersistedDup == Task(<<1, 1>>, <<" ">>, TRUE, 0)
MissingCompleted ==
  JsonElem("object", FALSE, "string", <<1, 2>>, "string", <<"a">>,
           "undefined", FALSE, "number", 0)
NullElem ==
  JsonElem("object", TRUE, "undefined", NoSuchId, "undefined", <<>>,
           "undefined", FALSE, "undefined", 0)

InitialContents ==
  { NoSnapshot,
    JsonOther,
    JsonArray(<<>>),
    JsonArray(<<TaskToJson(PersistedA), MissingCompleted>>),
    JsonArray(<<NullElem>>),
    Unreadable,
    Serialize(<<PersistedA, PersistedDup>>) }

\* ---- state ----
VARIABLES
  tasks,          \* tasks.value: the in-memory list
  storage,        \* the snapshot under STORAGE_KEY
  writeFailures,  \* how many writes in a row LocalStorage.set has thrown
  last            \* the call that has just returned, as its caller sees it

vars == <<tasks, storage, writeFailures, last>>

\* A call: the operation, its arguments, the list it started from, what it
\* did, and whether the content under STORAGE_KEY is another than before.
\* `loaded`: for a construction, the content it found under STORAGE_KEY.
\* `failedBefore`: how many writes in a row had failed when the call began.
Call(op, id, text, before, stored, out) ==
  [op |-> op, id |-> id, text |-> text, before |-> before,
   loaded |-> IF op = "construct" THEN stored ELSE NoSnapshot,
   failedBefore |-> 0,
   storageChanged |-> (out.storage # stored),
   ret |-> out.ret, log |-> out.log, writes |-> out.writes,
   setThrew |-> out.setThrew, notify |-> out.notify,
   removes |-> out.removes]

\* the single UI thread is idle: no call is running, none has just returned
Idle ==
  [op |-> "idle", id |-> NoSuchId, text |-> <<>>, before |-> <<>>,
   loaded |-> NoSnapshot, failedBefore |-> 0, storageChanged |-> FALSE, ret |-> RetVoid, log |-> "none", writes |-> 0,
   setThrew |-> FALSE, notify |-> 0, removes |-> 0]

\* `useTaskStore` set up: tasks = ref(loadTasksFromStorage())
construct(stored) ==
  LET ld == loadTasksFromStorage(stored)
  IN [Outcome(ld.tasks, ld.storage, IF ld.threw THEN Thrown ELSE RetVoid,
              ld.log, 0, FALSE, 0)
        EXCEPT !.removes = ld.removes]

Init ==
  \E stored \in InitialContents :
    LET out == construct(stored)
    IN /\ tasks = out.tasks
       /\ storage = out.storage
       /\ writeFailures = 0
       /\ last = Call("construct", NoSuchId, <<>>, <<>>, stored, out)

\* The ids a caller passes: those of the list and one that matches nothing
CallIds == {tasks[i].id : i \in 1..Len(tasks)} \cup {NoSuchId}

\* whether LocalStorage.set may throw in this call
SetThrows == IF writeFailures < MaxWriteFailures THEN BOOLEAN ELSE {FALSE}

\* One call runs to completion: the state afterwards and the record of it
Apply(op, id, text, out, setThrows) ==
  /\ last.op = "idle"
  /\ setThrows => out.writes > 0
  /\ tasks' = out.tasks
  /\ storage' = out.storage
  /\ writeFailures' = IF out.setThrew THEN writeFailures + 1
                      ELSE IF out.writes > 0 \/ op = "construct" THEN 0
                      ELSE writeFailures
  /\ last' = [Call(op, id, text, tasks, storage, out)
                EXCEPT !.failedBefore = writeFailures]

AddTask ==
  \E text \in Texts, t1 \in Timestamps, r \in Rand, t2 \in Timestamps,
     setThrows \in SetThrows :
    /\ (Trim(text) # <<>>) => Len(tasks) < MaxTasks
    /\ Apply("addTask", NoSuchId, text,
             addTask(tasks, storage, text, t1, r, t2, setThrows), setThrows)

ToggleTask ==
  \E id \in CallIds, setThrows \in SetThrows :
    Apply("toggleTask", id, <<>>,
          toggleTask(tasks, storage, id, setThrows), setThrows)

DeleteTask ==
  \E id \in CallIds, setThrows \in SetThrows :
    Apply("deleteTask", id, <<>>,
          deleteTask(tasks, storage, id, setThrows), setThrows)

ClearCompleted ==
  \E setThrows \in SetThrows :
    Apply("clearCompleted", NoSuchId, <<>>,
          clearCompleted(tasks, storage, setThrows), setThrows)

UpdateTask ==
  \E id \in CallIds, text \in Texts, setThrows \in SetThrows :
    Apply("updateTask", id, text,
          updateTask(tasks, storage, id, text, setThrows), setThrows)

\* a read of the filtered view; the filter is recorded as the call's text
GetFilteredTasks ==
  \E filter \in TaskFilters :
    Apply("getFilteredTasks", NoSuchId, <<filter>>,
          Outcome(tasks, storage, RetList(getFilteredTasks(tasks, filter)),
                  "none", 0, FALSE, 0),
          FALSE)

\* a page reload: the store is constructed again from what is persisted
Reload ==
  Apply("construct", NoSuchId, <<>>, construct(storage), FALSE)

\* the caller has taken the result; the thread waits for the next event
Return ==
  /\ last.op # "idle"
  /\ last' = Idle
  /\ UNCHANGED <<tasks, storage, writeFailures>>

Next ==
  \/ AddTask
  \/ ToggleTask
  \/ DeleteTask
  \/ ClearCompleted
  \/ UpdateTask
  \/ GetFilteredTasks
  \/ Reload
  \/ Return

Spec == Init /\ [][Next]_vars

TypeOK ==
  /\ Len(tasks) <= MaxTasks
  /\ writeFailures \in 0..MaxWriteFailures
  /\ last.op \in {"idle", "construct", "addTask", "toggleTask", "deleteTask",
                  "clearCompleted", "updateTask", "getFilteredTasks"}

\* ---- vocabulary of the properties ----
MutatingOps ==
  {"addTask", "toggleTask", "updateTask", "deleteTask", "clearCompleted"}

\* the call that has just returned found a task with the id it was given
Found == findIndex(last.before, last.id) # 0

\* the text the call was given is empty once trimmed
EmptyText == Trim(last.text) = <<>>

Ids(ts) == {ts[i].id : i \in 1..Len(ts)}

\* the JSON value st is an array holding the tasks of ts, field for field,
\* in the order of ts
SnapshotEquals(st, ts) ==
  /\ st.present
  /\ st.isArray
  /\ Len(st.items) = Len(ts)
  /\ \A i \in 1..Len(ts) :
       /\ IsValidTaskItem(st.items[i])
       /\ st.items[i].id = ts[i].id
       /\ st.items[i].text = ts[i].text
       /\ st.items[i].completed = ts[i].completed
       /\ st.items[i].createdAt = ts[i].createdAt

C2_IdsUnique ==
  \A i, j \in 1..Len(tasks) : i # j => tasks[i].id # tasks[j].id

\* ---- C3 ----
\* C3: every task of the in-memory list has a text that is non-empty after
\* trimming.
C3_TextNeverBlank ==
  \A i \in 1..Len(tasks) : Trim(tasks[i].text) # <<>>

\* ---- C4 ----
\* C4 (as stated): a call that fails on empty text (addTask, updateTask) or on
\* an unknown id (toggleTask, updateTask, deleteTask) returns to its caller;
\* it does not raise.
C4_FailuresNeverRaise ==
  \/ last.op \in {"toggleTask", "deleteTask", "updateTask"} /\ ~Found
  \/ last.op = "updateTask" /\ EmptyText
  \/ last.op = "addTask" /\ EmptyText
  => last.ret.kind # "throw"

\* C4 (amended): an unknown id on toggleTask, updateTask or deleteTask and an
\* empty text on updateTask are reported by the return value false, without
\* raising; an empty text on addTask raises an Error to the caller.
C4_FailuresReturnedExceptAddThrows ==
  /\ (last.op \in {"toggleTask", "deleteTask", "updateTask"} /\ ~Found)
       => last.ret = RetBool(FALSE)
  /\ (last.op = "updateTask" /\ EmptyText) => last.ret = RetBool(FALSE)
  /\ (last.op = "addTask" /\ EmptyText) => last.ret = Thrown

C4_Witness ==
  /\ last.op = "toggleTask"
  /\ ~Found
  /\ last.before # <<>>
  /\ last.ret = RetBool(FALSE)

\* ---- C5 ----
\* what updateTask hands its caller when no task has the id
UpdateNotFound ==
  updateTask(last.before, storage, NoSuchId, last.text, FALSE)

ToggledAt(ts, i) ==
  [j \in 1..Len(ts) |->
     IF j = i THEN Task(ts[j].id, ts[j].text, ~ts[j].completed, ts[j].createdAt)
     ELSE ts[j]]

RetextedAt(ts, i, text) ==
  [j \in 1..Len(ts) |->
     IF j = i THEN Task(ts[j].id, text, ts[j].completed, ts[j].createdAt)
     ELSE ts[j]]

RemovedAt(ts, i) ==
  [j \in 1..(Len(ts) - 1) |-> IF j < i THEN ts[j] ELSE ts[j + 1]]

\* ts is the sequence sub followed in order, with elements left out
RECURSIVE IsSubsequence(_, _)
IsSubsequence(sub, ts) ==
  IF sub = <<>> THEN TRUE
  ELSE IF ts = <<>> THEN FALSE
  ELSE IF Head(sub) = Head(ts) THEN IsSubsequence(Tail(sub), Tail(ts))
  ELSE IsSubsequence(sub, Tail(ts))

MutationInPlace ==
  LET i == findIndex(last.before, last.id) IN
  CASE last.op = "addTask" ->
         /\ last.ret.kind = "task"
         /\ tasks = <<last.ret.task>> \o last.before
    [] last.op = "toggleTask" ->
         /\ last.ret = RetBool(TRUE)
         /\ tasks = ToggledAt(last.before, i)
    [] last.op = "updateTask" ->
         /\ last.ret = RetBool(TRUE)
         /\ tasks = RetextedAt(last.before, i, Trim(last.text))
    [] last.op = "deleteTask" ->
         /\ last.ret = RetBool(TRUE)
         /\ tasks = RemovedAt(last.before, i)
    [] last.op = "clearCompleted" ->
         /\ last.ret.kind = "number"
         /\ last.ret.num = Len(last.before) - Len(tasks)
         /\ IsSubsequence(tasks, last.before)
         /\ \A j \in 1..Len(tasks) : ~tasks[j].completed
         /\ \A j \in 1..Len(last.before) :
              ~last.before[j].completed
                => \E k \in 1..Len(tasks) : tasks[k] = last.before[j]
    [] OTHER -> FALSE

\* C6: when the storage write of a mutating operation throws, the mutation
\* stays in the in-memory list, the operation returns its normal success
\* result without raising, and one warning notification is emitted.
C6_WriteFailureKeepsMutation ==
  (last.op \in MutatingOps /\ last.setThrew)
    => /\ MutationInPlace
       /\ last.ret.kind # "throw"
       /\ last.notify = 1

C6_Witness ==
  /\ last.op = "toggleTask"
  /\ last.setThrew
  /\ tasks # last.before
  /\ last.notify = 1
  /\ ~SnapshotEquals(storage, tasks)

\* ---- C7 ----
\* C7: addTask with a text that is non-empty after trimming returns a task
\* with the trimmed text, completed = false and an id that no task of the
\* list has; the list is then the new task followed by the previous tasks,
\* unchanged and in their order.
C7_AddReturnsFreshTaskAtHead ==
  (last.op = "addTask" /\ ~EmptyText)
    => /\ last.ret.kind = "task"
       /\ last.ret.task.text = Trim(last.text)
       /\ last.ret.task.completed = FALSE
       /\ last.ret.task.id \notin Ids(last.before)
       /\ Len(tasks) = Len(last.before) + 1
       /\ tasks[1] = last.ret.task
       /\ \A j \in 1..Len(last.before) : tasks[j + 1] = last.before[j]

\* ---- C8 ----
\* C8: addTask with an empty or whitespace-only text leaves the in-memory
\* list unchanged and signals a validation error to the caller.
C8_AddBlankRejected ==
  (last.op = "addTask" /\ EmptyText)
    => /\ tasks = last.before
       /\ last.ret = Thrown
       /\ last.log = "Task text cannot be empty"

C8_Witness ==
  /\ last.op = "addTask"
  /\ last.text = <<" ", " ">>
  /\ last.ret = Thrown
  /\ tasks # <<>>

\* ---- C9 ----
\* C9: toggleTask, updateTask and deleteTask with an id that matches no task
\* leave the in-memory list unchanged and return a failure indication.
C9_UnknownIdNoMutation ==
  (last.op \in {"toggleTask", "updateTask", "deleteTask"} /\ ~Found)
    => /\ tasks = last.before
       /\ last.ret = RetBool(FALSE)

C9_Witness ==
  /\ last.op = "deleteTask"
  /\ ~Found
  /\ Len(tasks) = 2
  /\ last.ret = RetBool(FALSE)

\* ---- C10 ----
\* C10: toggleTask on an existing id flips completed of the task it finds
\* and leaves its text, id and createdAt unchanged; stats.total is unchanged
\* and stats.completed and stats.pending change by one in opposite
\* directions.
C10_ToggleFlipsAndShiftsStats ==
  (last.op = "toggleTask" /\ Found)
    => LET i == findIndex(last.before, last.id)
           old == last.before[i]
           pre == stats(last.before)
           post == stats(tasks)
           d == IF old.completed THEN -1 ELSE 1
       IN /\ Len(tasks) = Len(last.before)
          /\ tasks[i].completed = ~old.completed
          /\ tasks[i].text = old.text
          /\ tasks[i].id = old.id
          /\ tasks[i].createdAt = old.createdAt
          /\ post.total = pre.total
          /\ post.completed = pre.completed + d
          /\ post.pending = pre.pending - d

C10_Witness ==
  /\ last.op = "toggleTask"
  /\ Found
  /\ Len(tasks) = 2
  /\ findIndex(last.before, last.id) = 2
  /\ last.before[2].completed
  /\ stats(tasks).pending = 2

\* ---- C11 ----
\* C11: updateTask with an existing id and a text that is non-empty after
\* trimming sets the text of the task it finds to the trimmed text and
\* returns success; the task's id, completed and createdAt, its position and
\* every other task are unchanged.
C11_UpdateSetsTrimmedTextInPlace ==
  (last.op = "updateTask" /\ Found /\ ~EmptyText)
    => LET i == findIndex(last.before, last.id) IN
       /\ last.ret = RetBool(TRUE)
       /\ Len(tasks) = Len(last.before)
       /\ tasks[i].text = Trim(last.text)
       /\ tasks[i].id = last.before[i].id
       /\ tasks[i].completed = last.before[i].completed
       /\ tasks[i].createdAt = last.before[i].createdAt
       /\ \A j \in 1..Len(tasks) : j # i => tasks[j] = last.before[j]

C11_Witness ==
  /\ last.op = "updateTask"
  /\ Len(tasks) = 2
  /\ findIndex(last.before, last.id) = 2
  /\ last.text = <<"a", " ", "a", " ">>
  /\ tasks[2].text = <<"a", " ", "a">>
  /\ last.before[2].text = <<"a">>

\* ---- C12 ----
\* C12: deleteTask on an id present in the list removes exactly one element
\* and returns success: the list is one shorter and the remaining tasks keep
\* their fields and their relative order.
C12_DeleteRemovesExactlyOne ==
  (last.op = "deleteTask" /\ Found)
    => /\ last.ret = RetBool(TRUE)
       /\ Len(tasks) = Len(last.before) - 1
       /\ \E k \in 1..Len(last.before) :
            /\ last.before[k].id = last.id
            /\ \A j \in 1..Len(tasks) :
                 tasks[j] = IF j < k THEN last.before[j] ELSE last.before[j + 1]

C12_Witness ==
  /\ last.op = "deleteTask"
  /\ Len(last.before) = 2
  /\ last.before[1].id = last.id
  /\ last.before[2].id = last.id
  /\ tasks = <<last.before[2]>>

\* ---- C13 ----
CompletedCount(ts) == Cardinality({i \in 1..Len(ts) : ts[i].completed})

\* the pending tasks of ts, in the order of ts, by position
PendingOf(ts) ==
  LET idx == {i \in 1..Len(ts) : ~ts[i].completed}
      nth(k) == CHOOSE i \in idx : Cardinality({j \in idx : j < i}) = k - 1
  IN [k \in 1..Cardinality(idx) |-> ts[nth(k)]]

\* C13: clearCompleted on a list of n tasks of which k are completed removes
\* exactly the k completed tasks, returns k and leaves the n - k pending
\* tasks unchanged in their order; a clearCompleted right after it returns 0
\* and leaves the list unchanged.
C13_ClearCompletedRemovesKThenNone ==
  (last.op = "clearCompleted")
    => /\ last.ret = RetNum(CompletedCount(last.before))
       /\ tasks = PendingOf(last.before)
       /\ Len(tasks) = Len(last.before) - CompletedCount(last.before)
       /\ \A f \in BOOLEAN :
            LET again == clearCompleted(tasks, storage, f) IN
            /\ again.ret = RetNum(0)
            /\ again.tasks = tasks
       /\ (CompletedCount(last.before) = 0)
            => (last.ret = RetNum(0) /\ tasks = last.before)

C13_Witness ==
  /\ last.op = "clearCompleted"
  /\ Len(last.before) = 2
  /\ last.before[1].completed
  /\ ~last.before[2].completed
  /\ last.ret = RetNum(1)
  /\ tasks = <<last.before[2]>>

\* ---- C14 ----
\* the JSON value v is not an array, or one of its elements lacks a string
\* id, a string text, a boolean completed or a numeric createdAt
FailsStructuralValidation(v) ==
  \/ ~v.isArray
  \/ \E i \in 1..Len(v.items) :
       \/ v.items[i].typeof # "object"
       \/ v.items[i].isNull
       \/ v.items[i].idType # "string"
       \/ v.items[i].textType # "string"
       \/ v.items[i].completedType # "boolean"
       \/ v.items[i].createdAtType # "number"

\* C14: when the persisted content found at construction fails structural
\* validation, the store starts with an empty list (no element is adopted),
\* construction does not raise, and afterwards nothing is stored under the
\* store key.
C14_InvalidSnapshotDiscarded ==
  ( /\ last.op = "construct"
    /\ last.loaded.present
    /\ last.loaded.readable
    /\ FailsStructuralValidation(last.loaded) )
    => /\ tasks = <<>>
       /\ last.ret.kind # "throw"
       /\ ~storage.present
       /\ last.removes = 1

C14_Witness ==
  /\ last.op = "construct"
  /\ last.loaded = JsonArray(<<TaskToJson(PersistedA), MissingCompleted>>)
  /\ tasks = <<>>
  /\ storage = NoSnapshot

\* ---- C15 ----
\* C15: when nothing is stored, or when reading the persistence layer throws,
\* construction completes without raising and the list is empty.
C15_NoSnapshotOrReadErrorStartsEmpty ==
  (last.op = "construct" /\ (~last.loaded.present \/ ~last.loaded.readable))
    => /\ tasks = <<>>
       /\ last.ret.kind # "throw"

C15_Witness ==
  /\ last.op = "construct"
  /\ last.loaded = Unreadable
  /\ tasks = <<>>
  /\ last.log = "error-loading"

\* ---- C16 ----
\* C16: once a list has been written to persistence, a store constructed
\* from that snapshot holds an equal list: the same tasks with the same id,
\* text, completed and createdAt, in the same order.
C16_RoundTrip ==
  /\ (last.op \in MutatingOps /\ last.writes > 0 /\ ~last.setThrew)
       => /\ construct(storage).tasks = tasks
          /\ construct(storage).storage = storage
  /\ (last.op = "construct" /\ last.loaded = Serialize(last.before))
       => /\ tasks = last.before
          /\ storage = last.loaded

C16_Witness ==
  /\ last.op = "construct"
  /\ last.loaded = Serialize(last.before)
  /\ Len(last.before) = 2
  /\ last.before[1].completed # last.before[2].completed
  /\ last.before[1].text # last.before[2].text
  /\ last.before[1].id # last.before[2].id
  /\ tasks = last.before

\* ---- C17 ----
\* the call that has just returned is one the code carries through to its
\* save: an addTask with a non-blank text, a toggleTask, updateTask or
\* deleteTask that found its task (updateTask with a non-blank text), or any
\* clearCompleted
ReachesSave ==
  \/ last.op = "addTask" /\ ~EmptyText
  \/ last.op \in {"toggleTask", "deleteTask"} /\ Found
  \/ last.op = "updateTask" /\ Found /\ ~EmptyText
  \/ last.op = "clearCompleted"

\* C17: a successful addTask, toggleTask, updateTask or deleteTask, and every
\* clearCompleted, performs exactly one write, of the whole current list,
\* under the store key, and no removal; a call that fails on validation or
\* on an unknown id performs no write and no removal and leaves the stored
\* content as it was.
C17_OneWritePerSuccessfulMutation ==
  (last.op \in MutatingOps)
    => IF ReachesSave
       THEN /\ last.writes = 1
            /\ last.removes = 0
            /\ ~last.setThrew => SnapshotEquals(storage, tasks)
       ELSE /\ last.writes = 0
            /\ last.removes = 0
            /\ ~last.storageChanged

C17_Witness ==
  /\ last.op = "clearCompleted"
  /\ CompletedCount(last.before) = 0
  /\ Len(last.before) = 2
  /\ last.writes = 1
  /\ ~last.setThrew
  /\ last.storageChanged
  /\ SnapshotEquals(storage, tasks)

\* ---- C18 ----
\* the tasks of ts whose completed flag is c, in the order of ts, by position
SelectOf(ts, c) ==
  LET idx == {i \in 1..Len(ts) : ts[i].completed = c}
      nth(k) == CHOOSE i \in idx : Cardinality({j \in idx : j < i}) = k - 1
  IN [k \in 1..Cardinality(idx) |-> ts[nth(k)]]

Elems(l) == {l[i] : i \in 1..Len(l)}

\* C18: getFilteredTasks changes nothing in the store; with 'all' it returns
\* the whole list in order, with 'completed' exactly the completed tasks in
\* order, with 'pending' exactly the pending tasks in order; the completed
\* and the pending result have no task in common and between them hold every
\* task of the list.
C18_FilterIsPureAndPartitions ==
  (last.op = "getFilteredTasks")
    => /\ tasks = last.before
       /\ ~last.storageChanged
       /\ last.writes = 0
       /\ last.removes = 0
       /\ last.ret.kind = "list"
       /\ last.text = <<"all">> => last.ret.list = tasks
       /\ last.text = <<"completed">> => last.ret.list = SelectOf(tasks, TRUE)
       /\ last.text = <<"pending">> => last.ret.list = SelectOf(tasks, FALSE)
       /\ LET c == getFilteredTasks(tasks, "completed")
              p == getFilteredTasks(tasks, "pending")
          IN /\ Elems(c) \cap Elems(p) = {}
             /\ Elems(c) \cup Elems(p) = Elems(tasks)
             /\ Len(c) + Len(p) = Len(tasks)

C18_Witness ==
  /\ last.op = "getFilteredTasks"
  /\ last.text = <<"completed">>
  /\ Len(tasks) = 2
  /\ ~tasks[1].completed
  /\ tasks[2].completed
  /\ last.ret.list = <<tasks[2]>>

\* ---- C19 ----
\* C19: in every state stats.total is the length of the list,
\* stats.completed the number of completed tasks, stats.pending the number
\* of tasks not completed, and total = completed + pending.
C19_StatsCountTheList ==
  /\ stats(tasks).total = Len(tasks)
  /\ stats(tasks).completed = Cardinality({i \in 1..Len(tasks) : tasks[i].completed})
  /\ stats(tasks).pending = Cardinality({i \in 1..Len(tasks) : ~tasks[i].completed})
  /\ stats(tasks).total = stats(tasks).completed + stats(tasks).pending

C19_Witness ==
  /\ Len(tasks) = 2
  /\ tasks[1].completed
  /\ ~tasks[2].completed
  /\ stats(tasks) = [total |-> 2, completed |-> 1, pending |-> 1]

\* ---- C20 ----
\* C20: whatever the interleaving of writes that succeed and writes that
\* fail, the stored snapshot is what construction left under the key until
\* an operation's write succeeds, and from then on a complete copy of the
\* list as it was at the end of the latest operation whose write succeeded:
\* a call changes the stored content only by a successful write, to a copy
\* of the whole current list (construction alone may remove content it found
\* invalid); a failed write leaves the stored content untouched; the first
\* successful write after failed ones makes the snapshot equal to the
\* current list; while no write has failed since the latest successful write
\* or construction the snapshot is a copy of the list; and a construction
\* yields either the empty list or exactly the list held in the snapshot it
\* read.
C20_SnapshotNeverPartial ==
  /\ last.storageChanged
       => \/ /\ last.op \in MutatingOps
             /\ last.writes = 1
             /\ ~last.setThrew
             /\ SnapshotEquals(storage, tasks)
          \/ /\ last.op = "construct"
             /\ last.removes = 1
             /\ FailsStructuralValidation(last.loaded)
             /\ storage = NoSnapshot
  /\ last.setThrew => ~last.storageChanged
  /\ (last.op \in MutatingOps /\ last.writes > 0 /\ ~last.setThrew)
       => SnapshotEquals(storage, tasks)
  /\ writeFailures = 0
       => IF storage.present /\ storage.readable
          THEN SnapshotEquals(storage, tasks)
          ELSE tasks = <<>>
  /\ last.op = "construct"
       => \/ tasks = <<>>
          \/ SnapshotEquals(last.loaded, tasks)

C20_Witness ==
  /\ last.op \in MutatingOps
  /\ last.failedBefore > 0
  /\ last.writes = 1
  /\ ~last.setThrew
  /\ last.storageChanged
  /\ Len(tasks) > 0
  /\ SnapshotEquals(storage, tasks)

\* ---- C21 ----
\* C21: after deleteTask(id) has returned success, no task of the in-memory
\* list has that id, in every state reachable from persisted content that
\* passes the validation at load.
C21_DeletedIdAbsent ==
  (last.op = "deleteTask" /\ last.ret = RetBool(TRUE))
    => last.id \notin Ids(tasks)

====
